---- MODULE Spec2Model ----
(***************************************************************************)
(* Model of the whois MCP server (src/src/whois_mcp_server/whois_server.py):*)
(* the single-item fetcher lookup_whois with query_whois_api and the two   *)
(* XML parsers, the batch orchestrator bulk_whois_lookup / process_batch   *)
(* and the CSV exporter save_results_to_csv.                                *)
(*                                                                          *)
(* Python dicts are functions from key strings to values.  A value is a    *)
(* tagged record: NoneVal for None, S(x) for the str x, L(q) for the list  *)
(* q.  Messages that are Korean in the source are written in ASCII.         *)
(***************************************************************************)
EXTENDS Integers, Sequences, FiniteSets, TLC

(* ------------------------------ bounds --------------------------------- *)
MaxItems == 3
MaxBatch == 2
MaxResults == 2

(* ----------------------------- dict helpers ---------------------------- *)
NoneVal == [t |-> "none", s |-> "", l |-> <<>>]
S(x) == [t |-> "str", s |-> x, l |-> <<>>]
L(q) == [t |-> "list", s |-> "", l |-> q]

\* a str-or-None argument that is None
NoneArg == "<None>"

EmptyDict == [k \in {} |-> NoneVal]

\* d[k] = v
Assign(d, k, v) == [x \in (DOMAIN d) \cup {k} |-> IF x = k THEN v ELSE d[x]]

\* d.update(e)
Update(d, e) == [x \in (DOMAIN d) \cup (DOMAIN e) |-> IF x \in DOMAIN e THEN e[x] ELSE d[x]]

\* d.get(k)
Get(d, k) == IF k \in DOMAIN d THEN d[k] ELSE NoneVal

\* d.get(k, default)
GetOr(d, k, default) == IF k \in DOMAIN d THEN d[k] ELSE default

Range(s) == {s[n] : n \in 1..Len(s)}

(* --------------------------- program constants ------------------------- *)
\* default of os.getenv("WHOIS_SERVICE_KEY", ...), the "unset" sentinel
Placeholder == "your_service_key_here"

\* the query strings of the model and the ones ipaddress.ip_address accepts
Queries == {"8.8.8.8", "a.kr", "b.kr"}
IPLiterals == {"8.8.8.8"}

is_ip_address(value) == value \in IPLiterals

(* ------------------------------ XML documents -------------------------- *)
\* A response body.  wf: ET.fromstring succeeds; whois: root has a whois
\* child; kr: whois has a krdomain child; krElems: the children of krdomain
\* in document order; top: the direct children of whois that carry text;
\* sub: the leaves whois/<lang>/<holder>/<block>/<tag> in document order.
Elem(tag, text) == [tag |-> tag, text |-> text]
Leaf(lang, holder, block, tag, text) ==
    [lang |-> lang, holder |-> holder, block |-> block, tag |-> tag, text |-> text]

DocMalformed ==
    [wf |-> FALSE, whois |-> FALSE, kr |-> FALSE, krElems |-> <<>>, top |-> <<>>, sub |-> <<>>]
DocNoWhois ==
    [wf |-> TRUE, whois |-> FALSE, kr |-> FALSE, krElems |-> <<>>, top |-> <<>>, sub |-> <<>>]
DocWhoisOnly ==
    [wf |-> TRUE, whois |-> TRUE, kr |-> FALSE, krElems |-> <<>>, top |-> <<>>, sub |-> <<>>]
DocDomainFull ==
    [wf |-> TRUE, whois |-> TRUE, kr |-> TRUE,
     krElems |-> << Elem("name", S("a.kr")), Elem("regName", S("Kim")),
                    Elem("regDate", S("2001")), Elem("lastUpdatedDate", S("2020")),
                    Elem("domainStatus", S("ok")), Elem("domainStatus", S("locked")),
                    Elem("ns1", S("ns.a.kr")), Elem("ip1", S("1.1.1.1")) >>,
     top |-> <<>>, sub |-> <<>>]
DocDomainSparse ==
    [wf |-> TRUE, whois |-> TRUE, kr |-> TRUE,
     krElems |-> << Elem("name", S("b.kr")), Elem("regDate", S("1999")) >>,
     top |-> <<>>, sub |-> <<>>]
DocIpKoreanISP ==
    [wf |-> TRUE, whois |-> TRUE, kr |-> FALSE, krElems |-> <<>>,
     top |-> << Elem("query", S("8.8.8.8")), Elem("queryType", S("IPv4")),
                Elem("registry", S("APNIC")), Elem("countryCode", S("KR")) >>,
     sub |-> << Leaf("korean", "ISP", "netInfo", "range", S("8.8.8.0-8.8.8.255")),
                Leaf("korean", "ISP", "netInfo", "orgName", S("KT")),
                Leaf("korean", "ISP", "techContact", "name", S("Lee")) >>]
DocIpEnglishUser ==
    [wf |-> TRUE, whois |-> TRUE, kr |-> FALSE, krElems |-> <<>>,
     top |-> << Elem("queryType", S("IPv4")), Elem("registry", S("ARIN")),
                Elem("countryCode", S("US")) >>,
     sub |-> << Leaf("english", "user", "netInfo", "orgName", S("Google")),
                Leaf("english", "user", "techContact", "name", S("Ops")) >>]

Documents == {DocMalformed, DocNoWhois, DocWhoisOnly, DocDomainFull,
              DocDomainSparse, DocIpKoreanISP, DocIpEnglishUser}

\* root.find(tag).text / root.findtext(tag): text of the first child with
\* that tag, None when there is none
FirstText(elems, tag) ==
    LET hits == SelectSeq(elems, LAMBDA e : e.tag = tag)
    IN  IF hits = <<>> THEN NoneVal ELSE hits[1].text

\* [e.text for e in root.findall(tag)]
AllTexts(elems, tag) ==
    LET hits == SelectSeq(elems, LAMBDA e : e.tag = tag)
    IN  L([n \in 1..Len(hits) |-> hits[n].text])

get_xml_text(elems, tag_name) == FirstText(elems, tag_name)

ScalarDomainTags == {"name", "regName", "addr", "post", "adminName", "adminEmail",
                     "adminPhone", "lastUpdatedDate", "regDate", "endDate", "infoYN",
                     "agency", "agency_url", "e_regName", "e_addr", "e_adminName",
                     "e_agency", "dnssec"}
ListDomainTags == {"domainStatus", "ns1", "ip1"}

parse_domain_whois_xml(xml_content, query) ==
    IF ~xml_content.wf
    THEN [error |-> S("XML parse error"), query |-> S(query)]
    ELSE IF ~(xml_content.whois /\ xml_content.kr)
    THEN [error |-> S("krdomain tag not found"), query |-> S(query)]
    ELSE [k \in {"query"} \cup ScalarDomainTags \cup ListDomainTags |->
            IF k = "query" THEN S(query)
            ELSE IF k \in ListDomainTags THEN AllTexts(xml_content.krElems, k)
            ELSE get_xml_text(xml_content.krElems, k)]

\* the eight findall loops of parse_ip_whois_xml, in source order
IpPaths == << <<"korean", "ISP", "netInfo", "korean_ISP_">>,
              <<"korean", "ISP", "techContact", "korean_ISP_contact_">>,
              <<"korean", "user", "netInfo", "korean_user_">>,
              <<"korean", "user", "techContact", "korean_user_contact_">>,
              <<"english", "ISP", "netInfo", "english_ISP_">>,
              <<"english", "ISP", "techContact", "english_ISP_contact_">>,
              <<"english", "user", "netInfo", "english_user_">>,
              <<"english", "user", "techContact", "english_user_contact_">> >>

RECURSIVE AssignLeaves(_, _, _)
\* for child in leaves: result[prefix + child.tag] = child.text
AssignLeaves(result, leaves, prefix) ==
    IF leaves = <<>> THEN result
    ELSE AssignLeaves(Assign(result, prefix \o Head(leaves).tag, Head(leaves).text),
                      Tail(leaves), prefix)

RECURSIVE FlattenPaths_anyHolder(_, _, _)
\* the loops with paths that match the block under either holder type
FlattenPaths_anyHolder(result, sub, n) ==
    IF n > Len(IpPaths) THEN result
    ELSE LET p == IpPaths[n]
             leaves == SelectSeq(sub, LAMBDA l : l.lang = p[1] /\ l.block = p[3])
         IN  FlattenPaths_anyHolder(AssignLeaves(result, leaves, p[4]), sub, n + 1)

RECURSIVE FlattenPaths(_, _, _)
FlattenPaths(result, sub, n) ==
    IF n > Len(IpPaths) THEN result
    ELSE LET p == IpPaths[n]
             leaves == SelectSeq(sub, LAMBDA l : l.lang = p[1] /\ l.holder = p[2]
                                                  /\ l.block = p[3])
         IN  FlattenPaths(AssignLeaves(result, leaves, p[4]), sub, n + 1)

parse_ip_whois_xml(xml_content, query) ==
    IF ~xml_content.wf
    THEN [error |-> S("XML parse error"), query |-> S(query)]
    ELSE IF ~xml_content.whois
    THEN [error |-> S("whois tag not found"), query |-> S(query)]
    ELSE FlattenPaths([query |-> FirstText(xml_content.top, "query"),
                       queryType |-> FirstText(xml_content.top, "queryType"),
                       registry |-> FirstText(xml_content.top, "registry"),
                       countryCode |-> FirstText(xml_content.top, "countryCode")],
                      xml_content.sub, 1)

(* --------------------------- single-item fetcher ------------------------ *)
StatusCodes == {200, 404, 500}

\* What the network does with one GET: an HTTP response, an exception raised
\* by client.get (timeout, connection reset, DNS failure), or an exception
\* raised by the client outside query_whois_api (set-up or close).
Responses ==
    [kind : {"http"}, status_code : {200}, text : Documents, exc : {NoneArg}]
    \cup [kind : {"http"}, status_code : StatusCodes \ {200}, text : {DocNoWhois}, exc : {NoneArg}]
    \cup [kind : {"exc"}, status_code : {0}, text : {DocNoWhois}, exc : {"ConnectTimeout", "ConnectError"}]
    \cup [kind : {"client_exc"}, status_code : {0}, text : {DocNoWhois}, exc : {"RuntimeError"}]

isoformat(now) == S("T" \o ToString(now))

query_whois_api(query, service_key, is_ip, response) ==
    IF response.kind = "exc"
    THEN [error |-> S("API call error: " \o response.exc), query |-> S(query)]
    ELSE IF response.status_code = 200
    THEN IF is_ip THEN parse_ip_whois_xml(response.text, query)
                  ELSE parse_domain_whois_xml(response.text, query)
    ELSE [error |-> S("API call failed: HTTP " \o ToString(response.status_code)),
          query |-> S(query)]

\* service_key or SERVICE_KEY
ApiKey(service_key, env_key) ==
    IF service_key # NoneArg /\ service_key # "" THEN service_key ELSE env_key

\* the guard without its comparison with the sentinel
CredentialMissing_noSentinel(service_key, env_key) ==
    LET api_key == ApiKey(service_key, env_key)
    IN  api_key = NoneArg \/ api_key = ""

\* the guard "not api_key or api_key == 'your_service_key_here'"
CredentialMissing(service_key, env_key) ==
    LET api_key == ApiKey(service_key, env_key)
    IN  api_key = NoneArg \/ api_key = "" \/ api_key = Placeholder

\* the early return of lookup_whois
CredentialFailure(query) ==
    [query |-> S(query), status |-> S("error"), error |-> S("API service key required")]

\* lookup_whois after the credential guard, once the network has answered
LookupResult(query, service_key, env_key, response, now) ==
    IF response.kind = "client_exc"
    THEN [query |-> S(query), status |-> S("error"),
          error |-> S("API call error: " \o response.exc),
          query_time |-> isoformat(now)]
    ELSE LET whois_data == query_whois_api(query, ApiKey(service_key, env_key),
                                           is_ip_address(query), response)
         IN  [query |-> S(query),
              status |-> IF "error" \notin DOMAIN whois_data THEN S("success") ELSE S("error"),
              data |-> whois_data,
              query_time |-> isoformat(now)]

lookup_whois(query, service_key, env_key, response, now) ==
    IF CredentialMissing(service_key, env_key)
    THEN CredentialFailure(query)
    ELSE LookupResult(query, service_key, env_key, response, now)

(* --------------------------------- state -------------------------------- *)
VARIABLES
    SERVICE_KEY,  \* the module-level credential read at process start
    items,        \* bulk_whois_lookup: the items argument
    batch_size,   \* bulk_whois_lookup: the batch_size argument
    pc,           \* bulk_whois_lookup: where the coroutine is
    i,            \* bulk_whois_lookup: the loop variable of range(0, total_items, batch_size)
    batches,      \* the slices items[i:i + batch_size] taken so far, in order
    tasks,        \* per item position: the lookup_whois coroutine of process_batch
    results,      \* bulk_whois_lookup: results
    errors,       \* bulk_whois_lookup: errors
    processed,    \* bulk_whois_lookup: processed
    sleeps,       \* number of asyncio.sleep(delay) suspensions completed
    requests,     \* number of GET requests issued by the run
    now,          \* datetime.now(), as a tick count
    ret,          \* bulk_whois_lookup: the returned dict (EmptyDict before return)
    lk,           \* one direct lookup_whois call
    csv,          \* one save_results_to_csv call
    px            \* one parse_ip_whois_xml call

bulkVars == <<items, batch_size, pc, i, batches, tasks, results, errors, processed,
              sleeps, requests, now, ret>>
vars == <<SERVICE_KEY, items, batch_size, pc, i, batches, tasks, results, errors,
          processed, sleeps, requests, now, ret, lk, csv, px>>

\* values os.getenv("WHOIS_SERVICE_KEY", Placeholder) can give
EnvKeys == {"", Placeholder, "key1"}
\* values of the service_key argument
ArgKeys == {NoneArg, "", Placeholder, "key2"}

\* the network answers drawn in a bulk run: one per kind of outcome
BulkResponses ==
    {r \in Responses : /\ r.text \in {DocMalformed, DocNoWhois, DocDomainFull, DocIpKoreanISP}
                       /\ r.status_code # 500
                       /\ r.exc # "ConnectError"}

RECURSIVE SeqsUpTo(_, _)
\* all sequences over set of length at most n
SeqsUpTo(set, n) ==
    IF n = 0 THEN {<<>>}
    ELSE LET shorter == SeqsUpTo(set, n - 1)
         IN  shorter \cup {Append(q, x) : q \in shorter, x \in set}

BulkQueries == {"8.8.8.8", "a.kr"}

NoTask == [st |-> "none", out |-> EmptyDict]

IdleLookup == [pc |-> "idle", query |-> "", service_key |-> NoneArg,
               out |-> EmptyDict, requests |-> 0]
IdleCsv == [pc |-> "idle", results |-> <<>>, writable |-> TRUE, headers |-> <<>>,
            rows |-> <<>>, opened |-> FALSE, ret |-> EmptyDict]

(* ---------------------------- batch orchestrator ------------------------ *)
IdleParse == [pc |-> "idle", xml_content |-> DocNoWhois, query |-> "", out |-> EmptyDict]

InitBulk ==
    /\ items \in SeqsUpTo(BulkQueries, MaxItems)
    /\ batch_size \in -1..MaxBatch
    /\ pc = "start"
    /\ i = 0
    /\ batches = <<>>
    /\ tasks = [k \in 1..Len(items) |-> NoTask]
    /\ results = <<>>
    /\ errors = <<>>
    /\ processed = 0
    /\ sleeps = 0
    /\ requests = 0
    /\ now = 0
    /\ ret = EmptyDict

IdleBulk ==
    /\ items = <<>>
    /\ batch_size = 1
    /\ pc = "idle"
    /\ i = 0
    /\ batches = <<>>
    /\ tasks = <<>>
    /\ results = <<>>
    /\ errors = <<>>
    /\ processed = 0
    /\ sleeps = 0
    /\ requests = 0
    /\ now = 0
    /\ ret = EmptyDict

total_items == Len(items)

\* i is a value of range(0, total_items, batch_size) that is still to come
InRange(n) == IF batch_size > 0 THEN n < total_items ELSE n > total_items

\* items[lo:hi - 1]: a slice one item short
Slice_short(seq, lo, hi) ==
    SubSeq(seq, lo + 1, IF hi - 1 < Len(seq) THEN hi - 1 ELSE Len(seq))

\* items[lo:hi] for 0 <= lo
Slice(seq, lo, hi) ==
    SubSeq(seq, lo + 1, IF hi < Len(seq) THEN hi ELSE Len(seq))

\* the positions of items[i:]: a batch without its upper end
BatchPositions_wide == {k \in 1..total_items : i < k}

\* the item positions (1-based) of the batch being processed
BatchPositions == {k \in 1..total_items : i < k /\ k <= i + batch_size}

\* entry of bulk_whois_lookup up to the evaluation of range(): a step of 0
\* raises ValueError, which the outer handler turns into an error result
BulkEnter ==
    /\ pc = "start"
    /\ IF batch_size = 0
       THEN /\ pc' = "done"
            /\ ret' = [status |-> S("error"),
                       error |-> S("bulk error: range() arg 3 must not be zero")]
       ELSE /\ pc' = "loop"
            /\ ret' = ret
    /\ UNCHANGED <<SERVICE_KEY, items, batch_size, i, batches, tasks, results, errors,
                   processed, sleeps, requests, now, lk, csv, px>>

\* one iteration head: batch = items[i:i + batch_size], then process_batch
\* creates one lookup_whois coroutine per item and awaits their gather
process_batch ==
    /\ pc = "loop"
    /\ InRange(i)
    /\ batches' = Append(batches, Slice(items, i, i + batch_size))
    /\ tasks' = [k \in 1..total_items |->
                    IF k \in BatchPositions THEN [st |-> "pending", out |-> EmptyDict]
                    ELSE tasks[k]]
    /\ pc' = "gather"
    /\ UNCHANGED <<SERVICE_KEY, items, batch_size, i, results, errors, processed,
                   sleeps, requests, now, ret, lk, csv, px>>

\* lookup_whois(item) runs up to its first suspension: the credential guard
\* returns at once, otherwise the GET is issued and the coroutine waits
TaskStart(k) ==
    /\ pc = "gather"
    /\ tasks[k].st = "pending"
    /\ IF CredentialMissing(NoneArg, SERVICE_KEY)
       THEN /\ tasks' = [tasks EXCEPT ![k] = [st |-> "done", out |-> CredentialFailure(items[k])]]
            /\ requests' = requests
       ELSE /\ tasks' = [tasks EXCEPT ![k].st = "inflight"]
            /\ requests' = requests + 1
    /\ UNCHANGED <<SERVICE_KEY, items, batch_size, pc, i, batches, results, errors,
                   processed, sleeps, now, ret, lk, csv, px>>

\* the network answers the GET of task k and lookup_whois returns
TaskRespond(k, response) ==
    /\ pc = "gather"
    /\ tasks[k].st = "inflight"
    /\ now' = now + 1
    /\ tasks' = [tasks EXCEPT ![k] =
                    [st |-> "done",
                     out |-> LookupResult(items[k], NoneArg, SERVICE_KEY, response, now')]]
    /\ UNCHANGED <<SERVICE_KEY, items, batch_size, pc, i, batches, results, errors,
                   processed, sleeps, requests, ret, lk, csv, px>>

RECURSIVE Record_dropped(_, _, _)
\* a recording loop that counts a failure only when the outcome has a
\* top-level error field
Record_dropped(batch_results, res, errs) ==
    IF batch_results = <<>> THEN <<res, errs>>
    ELSE LET result == Head(batch_results)
         IN  IF Get(result, "status") = S("success")
             THEN Record_dropped(Tail(batch_results), Append(res, result), errs)
             ELSE IF "error" \in DOMAIN result
             THEN Record_dropped(Tail(batch_results), res,
                                 Append(errs, GetOr(result, "query", S("unknown"))))
             ELSE Record_dropped(Tail(batch_results), res, errs)

RECURSIVE Record(_, _, _)
\* "for result in batch_results": successes go to results, the query of every
\* other outcome goes to errors.  Returns <<results, errors>>.  The branch
\* for an Exception result is not taken: lookup_whois catches every
\* Exception and returns a dict.
Record(batch_results, res, errs) ==
    IF batch_results = <<>> THEN <<res, errs>>
    ELSE LET result == Head(batch_results)
         IN  IF Get(result, "status") = S("success")
             THEN Record(Tail(batch_results), Append(res, result), errs)
             ELSE Record(Tail(batch_results), res,
                         Append(errs, GetOr(result, "query", S("unknown"))))

\* a gather that returns as soon as one task of the batch is done
GatherReady_any == \E k \in BatchPositions : tasks[k].st = "done"

\* asyncio.gather returns once every task of the batch is done, with the
\* outcomes in batch order
GatherReady == \A k \in BatchPositions : tasks[k].st = "done"

\* a recording step that lets the first failed outcome of a batch end the
\* run with a top-level error
GatherDone_abort ==
    /\ pc = "gather"
    /\ GatherReady
    /\ LET batch == Slice(items, i, i + batch_size)
           batch_results == [n \in 1..Len(batch) |-> tasks[i + n].out]
           rec == Record(batch_results, results, errors)
       IN  IF \E n \in 1..Len(batch) : Get(batch_results[n], "status") # S("success")
           THEN /\ pc' = "done"
                /\ ret' = [status |-> S("error"), error |-> S("bulk error: lookup failed")]
                /\ UNCHANGED <<results, errors, processed>>
           ELSE /\ results' = rec[1]
                /\ errors' = rec[2]
                /\ processed' = processed + Len(batch)
                /\ pc' = "sleep"
                /\ ret' = ret
    /\ UNCHANGED <<SERVICE_KEY, items, batch_size, i, batches, tasks, sleeps, requests,
                   now, lk, csv, px>>

\* process_batch returns; the outcomes are recorded, processed is advanced
\* and the coroutine suspends in asyncio.sleep(delay).  The progress print
\* in between writes to stdout only.
GatherDone ==
    /\ pc = "gather"
    /\ GatherReady
    /\ LET batch == Slice(items, i, i + batch_size)
           batch_results == [n \in 1..Len(batch) |-> tasks[i + n].out]
           rec == Record(batch_results, results, errors)
       IN  /\ results' = rec[1]
           /\ errors' = rec[2]
           /\ processed' = processed + Len(batch)
    /\ pc' = "sleep"
    /\ UNCHANGED <<SERVICE_KEY, items, batch_size, i, batches, tasks, sleeps, requests,
                   now, ret, lk, csv, px>>

\* asyncio.sleep(delay) elapses and the for loop takes its next value
SleepDone ==
    /\ pc = "sleep"
    /\ sleeps' = sleeps + 1
    /\ i' = i + batch_size
    /\ pc' = "loop"
    /\ UNCHANGED <<SERVICE_KEY, items, batch_size, batches, tasks, results, errors,
                   processed, requests, now, ret, lk, csv, px>>

\* the loop is exhausted: the summary is returned
BulkReturn ==
    /\ pc = "loop"
    /\ ~InRange(i)
    /\ ret' = [status |-> S("completed"),
               total_items |-> total_items,
               successful |-> Len(results),
               failed |-> Len(errors),
               success_rate |-> IF total_items > 0
                                THEN (Len(results) * 100) \div total_items ELSE 0,
               results |-> results]
    /\ pc' = "done"
    /\ UNCHANGED <<SERVICE_KEY, items, batch_size, i, batches, tasks, results, errors,
                   processed, sleeps, requests, now, lk, csv, px>>

NextBulk ==
    \/ BulkEnter
    \/ process_batch
    \/ \E k \in 1..total_items : TaskStart(k)
    \/ \E k \in 1..total_items, response \in BulkResponses : TaskRespond(k, response)
    \/ GatherDone
    \/ SleepDone
    \/ BulkReturn

Init ==
    /\ SERVICE_KEY \in EnvKeys
    /\ InitBulk
    /\ lk = IdleLookup
    /\ csv = IdleCsv
    /\ px = IdleParse

Spec == Init /\ [][NextBulk]_vars

(* --------------------------- one lookup_whois call ---------------------- *)
InitLookup ==
    /\ SERVICE_KEY \in EnvKeys
    /\ IdleBulk
    /\ lk \in [pc : {"start"}, query : Queries, service_key : ArgKeys,
               out : {EmptyDict}, requests : {0}]
    /\ csv = IdleCsv
    /\ px = IdleParse

\* lookup_whois up to its first suspension
LookupStart ==
    /\ lk.pc = "start"
    /\ IF CredentialMissing(lk.service_key, SERVICE_KEY)
       THEN lk' = [lk EXCEPT !.pc = "done", !.out = CredentialFailure(lk.query)]
       ELSE lk' = [lk EXCEPT !.pc = "inflight", !.requests = lk.requests + 1]
    /\ UNCHANGED <<SERVICE_KEY, bulkVars, csv, px>>

\* the network answers and lookup_whois returns
LookupRespond(response) ==
    /\ lk.pc = "inflight"
    /\ now' = now + 1
    /\ lk' = [lk EXCEPT !.pc = "done",
                        !.out = LookupResult(lk.query, lk.service_key, SERVICE_KEY,
                                             response, now')]
    /\ UNCHANGED <<SERVICE_KEY, items, batch_size, pc, i, batches, tasks, results, errors,
                   processed, sleeps, requests, ret, csv, px>>

NextLookup ==
    \/ LookupStart
    \/ \E response \in Responses : LookupRespond(response)

SpecLookup == InitLookup /\ [][NextLookup]_vars

(* ------------------------------ CSV exporter ---------------------------- *)
\* every field name of the model, in the order sorted() gives to str keys
FieldOrder == << "addr", "adminEmail", "adminName", "adminPhone", "agency", "agency_url",
                 "countryCode", "dnssec", "domainStatus", "e_addr", "e_adminName",
                 "e_agency", "e_regName", "endDate", "english_ISP_contact_name",
                 "english_ISP_orgName", "english_ISP_range", "english_user_contact_name",
                 "english_user_orgName", "english_user_range", "error", "infoYN", "ip1",
                 "korean_ISP_contact_name", "korean_ISP_orgName", "korean_ISP_range",
                 "korean_user_contact_name", "korean_user_orgName", "korean_user_range",
                 "lastUpdatedDate", "name", "ns1", "post", "query", "queryType",
                 "regDate", "regName", "registry" >>

\* sorted(list(headers))
Sorted(set) == SelectSeq(FieldOrder, LAMBDA f : f \in set)

FixedHeaders == <<"query", "status", "query_time">>

\* the outcome contributes its data keys to the header
IsSuccessWithData(result) ==
    Get(result, "status") = S("success") /\ "data" \in DOMAIN result

\* headers = set(); for result in results: headers.update(result["data"].keys())
HeaderKeys(res) ==
    UNION {DOMAIN res[n]["data"] : n \in {m \in 1..Len(res) : IsSuccessWithData(res[m])}}

\* headers = ["query", "status", "query_time"] + sorted(list(headers))
Headers(res) == FixedHeaders \o Sorted(HeaderKeys(res))

\* the row dict built for one outcome
Row(result) ==
    LET base == [query |-> Get(result, "query"),
                 status |-> Get(result, "status"),
                 query_time |-> Get(result, "query_time")]
    IN  IF IsSuccessWithData(result) THEN Update(base, result["data"])
        ELSE IF Get(result, "status") = S("error")
        THEN Assign(base, "error", Get(result, "error"))
        ELSE base

RECURSIVE ReprItems(_)
ReprItems(q) ==
    IF q = <<>> THEN ""
    ELSE (IF Head(q).t = "none" THEN "None" ELSE "'" \o Head(q).s \o "'")
         \o (IF Len(q) > 1 THEN ", " ELSE "") \o ReprItems(Tail(q))

\* what csv.writer writes for a value: None as the empty string, a list as
\* its str()
Cell(v) ==
    IF v.t = "none" THEN ""
    ELSE IF v.t = "list" THEN "[" \o ReprItems(v.l) \o "]"
    ELSE v.s

\* DictWriter._dict_to_list with the default extrasaction="raise"
RowAccepted(row, fieldnames) == (DOMAIN row) \subseteq Range(fieldnames)

\* [rowdict.get(key, self.restval) for key in self.fieldnames], restval = ""
Line(row, fieldnames) ==
    [n \in 1..Len(fieldnames) |-> Cell(GetOr(row, fieldnames[n], S("")))]

RECURSIVE WriteRows(_, _, _)
\* the writerow loop: the lines written, up to the first row that raises
WriteRows(res, fieldnames, written) ==
    IF res = <<>> THEN [ok |-> TRUE, lines |-> written]
    ELSE IF ~RowAccepted(Row(Head(res)), fieldnames)
    THEN [ok |-> FALSE, lines |-> written]
    ELSE WriteRows(Tail(res), fieldnames, Append(written, Line(Row(Head(res)), fieldnames)))

Http(code, doc) == [kind |-> "http", status_code |-> code, text |-> doc, exc |-> NoneArg]

\* outcomes handed to the exporter: what lookup_whois returns on each of its
\* paths, and one caller-built outcome whose record has an error field
CsvOutcomes ==
    { lookup_whois("a.kr", NoneArg, "key1", Http(200, DocDomainFull), 1),
      lookup_whois("8.8.8.8", NoneArg, "key1", Http(200, DocIpKoreanISP), 2),
      lookup_whois("8.8.8.8", NoneArg, "key1", Http(200, DocIpEnglishUser), 3),
      lookup_whois("b.kr", NoneArg, Placeholder, Http(200, DocDomainSparse), 4),
      lookup_whois("b.kr", NoneArg, "key1", Http(404, DocNoWhois), 5),
      lookup_whois("a.kr", NoneArg, "key1",
                   [kind |-> "client_exc", status_code |-> 0, text |-> DocNoWhois,
                    exc |-> "RuntimeError"], 6),
      [query |-> S("c.kr"), status |-> S("success"),
       data |-> [name |-> S("c.kr"), error |-> S("note")]] }

InitCsv ==
    /\ SERVICE_KEY \in {"key1"}
    /\ IdleBulk
    /\ lk = IdleLookup
    /\ csv \in [pc : {"start"}, results : SeqsUpTo(CsvOutcomes, MaxResults),
                writable : BOOLEAN, headers : {<<>>}, rows : {<<>>},
                opened : {FALSE}, ret : {EmptyDict}]
    /\ px = IdleParse

\* the whole of save_results_to_csv
save_results_to_csv ==
    /\ csv.pc = "start"
    /\ IF csv.results = <<>>
       THEN csv' = [csv EXCEPT !.pc = "done",
                               !.ret = [status |-> S("error"), error |-> S("no data to save")]]
       ELSE LET headers == Headers(csv.results)
                w == WriteRows(csv.results, headers, <<>>)
            IN  IF ~csv.writable
                THEN csv' = [csv EXCEPT !.pc = "done", !.headers = headers,
                                        !.ret = [status |-> S("error"),
                                                 error |-> S("CSV save error: cannot open")]]
                ELSE IF ~w.ok
                THEN csv' = [csv EXCEPT !.pc = "done", !.headers = headers, !.opened = TRUE,
                                        !.rows = w.lines,
                                        !.ret = [status |-> S("error"),
                                                 error |-> S("CSV save error: dict contains fields not in fieldnames")]]
                ELSE csv' = [csv EXCEPT !.pc = "done", !.headers = headers, !.opened = TRUE,
                                        !.rows = w.lines,
                                        !.ret = [status |-> S("success"),
                                                 records_saved |-> Len(csv.results)]]
    /\ UNCHANGED <<SERVICE_KEY, bulkVars, lk, px>>

NextCsv == save_results_to_csv

SpecCsv == InitCsv /\ [][NextCsv]_vars

(* ------------------------ one parse_ip_whois_xml call ------------------- *)
\* the element names the model gives to the children of a netInfo block and
\* of a techContact block
BlockTags(block) == IF block = "netInfo" THEN <<"range", "orgName">> ELSE <<"name">>

\* the leaves of the block that IpPaths[n] selects
PathLeaves(n) ==
    LET p == IpPaths[n]
        tags == BlockTags(p[3])
    IN  [c \in 1..Len(tags) |-> Leaf(p[1], p[2], p[3], tags[c], S("x"))]

RECURSIVE SubOf(_, _)
\* the leaves of a document in which exactly the blocks of present are
\* populated, in document order
SubOf(present, n) ==
    IF n > Len(IpPaths) THEN <<>>
    ELSE (IF n \in present THEN PathLeaves(n) ELSE <<>>) \o SubOf(present, n + 1)

\* the whois children with text: all four, or none of them
IpTops == { << Elem("query", S("8.8.8.8")), Elem("queryType", S("IPv4")),
               Elem("registry", S("KRNIC")), Elem("countryCode", S("KR")) >>,
            << >> }

\* IP responses: every combination of populated blocks, with and without the
\* top-level fields, and the two documents the parser rejects
IpDocuments ==
    {[wf |-> TRUE, whois |-> TRUE, kr |-> FALSE, krElems |-> <<>>, top |-> t,
      sub |-> SubOf(present, 1)] : t \in IpTops, present \in SUBSET (1..Len(IpPaths))}
    \cup {DocMalformed, DocNoWhois}

InitParse ==
    /\ SERVICE_KEY \in {"key1"}
    /\ IdleBulk
    /\ lk = IdleLookup
    /\ csv = IdleCsv
    /\ px \in [pc : {"start"}, xml_content : IpDocuments, query : IPLiterals,
               out : {EmptyDict}]

\* the whole of parse_ip_whois_xml
ParseIp ==
    /\ px.pc = "start"
    /\ px' = [px EXCEPT !.pc = "done", !.out = parse_ip_whois_xml(px.xml_content, px.query)]
    /\ UNCHANGED <<SERVICE_KEY, bulkVars, lk, csv>>

NextParse == ParseIp

SpecParse == InitParse /\ [][NextParse]_vars

(* ================================ claims ================================ *)
Done == pc = "done"
Completed == Done /\ Get(ret, "status") = S("completed")
OutcomeStatus(k) == Get(tasks[k].out, "status")

\* C1: for a non-empty item list and batch_size >= 1 the returned summary
\* has successful + failed = total_items = len(items), whatever the
\* individual lookups produced.
C1_CountsAddUp ==
    (Done /\ batch_size >= 1 /\ items # <<>>) =>
        /\ Get(ret, "status") = S("completed")
        /\ ret.total_items = Len(items)
        /\ ret.successful + ret.failed = ret.total_items
        /\ ret.successful = Len(ret.results)

\* a finished run over several batches that mixes successes with a non-200
\* failure or a transport failure
C1_Witness ==
    /\ Completed
    /\ batch_size >= 1
    /\ Len(batches) >= 2
    /\ ret.successful >= 1
    /\ ret.failed >= 1
    /\ \E k \in 1..Len(items) :
          /\ OutcomeStatus(k) = S("error")
          /\ "data" \in DOMAIN tasks[k].out

\* C2: with batch_size >= 1 a failed lookup never ends the run with a
\* top-level error: the run returns "completed", and by then every item has
\* its own finished outcome, carrying that item's query.
C2_FailureIsolated ==
    batch_size >= 1 =>
        /\ "error" \notin DOMAIN ret
        /\ Done =>
              /\ Get(ret, "status") = S("completed")
              /\ \A k \in 1..Len(items) :
                    /\ tasks[k].st = "done"
                    /\ Get(tasks[k].out, "query") = S(items[k])
                    /\ OutcomeStatus(k) \in {S("success"), S("error")}

\* a completed run whose first item failed in the first batch and whose last
\* item, in a later batch, succeeded
C2_Witness ==
    /\ Completed
    /\ Len(batches) >= 2
    /\ OutcomeStatus(1) = S("error")
    /\ OutcomeStatus(Len(items)) = S("success")
    /\ \E k \in 1..Len(items) : k > 1 /\ k <= batch_size /\ OutcomeStatus(k) = S("success")

BatchOf(k) == (k - 1) \div batch_size
Recorded(k) == k <= processed /\ k <= Len(results) + Len(errors)

\* C3: a lookup of a later batch exists (created, in flight or done) only
\* when every lookup of every earlier batch is done and recorded in the
\* counters and lists of the run.
C3_BatchesOrdered ==
    batch_size >= 1 =>
        \A k \in 1..Len(items), m \in 1..Len(items) :
            (BatchOf(k) < BatchOf(m) /\ tasks[m].st # "none") =>
                (tasks[k].st = "done" /\ Recorded(k))

\* a lookup of the second batch is in flight after the first batch was recorded
C3_Witness ==
    /\ batch_size = 2
    /\ Len(batches) = 2
    /\ Len(items) >= 3
    /\ tasks[3].st = "inflight"
    /\ tasks[1].st = "done"
    /\ tasks[2].st = "done"
    /\ processed = 2

\* the credential lookup_whois uses: the argument, else the configured key
EffectiveKey ==
    IF lk.service_key \in {NoneArg, ""} THEN SERVICE_KEY ELSE lk.service_key

\* C4: when the effective credential is absent (empty) or the placeholder,
\* lookup_whois has returned an error outcome with the credential-missing
\* message and no request was issued.
C4_NoCredentialNoRequest ==
    (lk.pc \in {"inflight", "done"} /\ EffectiveKey \in {NoneArg, "", Placeholder}) =>
        /\ lk.pc = "done"
        /\ lk.requests = 0
        /\ Get(lk.out, "status") = S("error")
        /\ Get(lk.out, "error") = S("API service key required")

\* the placeholder passed as argument although a key is configured
C4_Witness ==
    /\ lk.pc = "done"
    /\ lk.service_key = Placeholder
    /\ SERVICE_KEY = "key1"
    /\ lk.requests = 0
    /\ Get(lk.out, "status") = S("error")

\* C5: every outcome lookup_whois returns carries query_time.
C5_AlwaysTimestamped ==
    lk.pc = "done" => "query_time" \in DOMAIN lk.out

\* C6: an outcome with status "error" has a top-level error field holding
\* the reason, an outcome with status "success" has the record in data.
C6_ErrorFieldTopLevel ==
    lk.pc = "done" =>
        /\ Get(lk.out, "status") = S("error") =>
              ("error" \in DOMAIN lk.out /\ lk.out["error"].t = "str")
        /\ Get(lk.out, "status") = S("success") =>
              ("data" \in DOMAIN lk.out /\ "error" \notin DOMAIN lk.out["data"])

\* C7: the record of a successful lookup has the original query string under
\* the key query.
C7_RecordKeepsQuery ==
    (lk.pc = "done" /\ Get(lk.out, "status") = S("success")) =>
        Get(lk.out["data"], "query") = S(lk.query)

NoDuplicates(seq) == \A a \in 1..Len(seq), b \in 1..Len(seq) : seq[a] = seq[b] => a = b

\* C8: for a non-empty outcome list and a writable destination the export
\* succeeds with records_saved = len(results), one line per outcome, and a
\* column the outcome lacks is written empty.
C8_ExportSucceeds ==
    (csv.pc = "done" /\ csv.results # <<>> /\ csv.writable) =>
        /\ Get(csv.ret, "status") = S("success")
        /\ csv.ret.records_saved = Len(csv.results)
        /\ Len(csv.rows) = Len(csv.results)
        /\ \A n \in 1..Len(csv.rows) :
              /\ Len(csv.rows[n]) = Len(csv.headers)
              /\ \A c \in 1..Len(csv.headers) :
                    csv.headers[c] \notin DOMAIN Row(csv.results[n]) => csv.rows[n][c] = ""

\* the field names of the records of the success outcomes
SuccessFields ==
    UNION {DOMAIN csv.results[n]["data"] :
             n \in {m \in 1..Len(csv.results) :
                      /\ Get(csv.results[m], "status") = S("success")
                      /\ "data" \in DOMAIN csv.results[m]}}

\* C9: the header written to the file is the three fixed columns followed by the sorted union of
\* the success records' field names; its set of names is the union of the
\* two, and no name is listed twice.
C9_ColumnSet ==
    (csv.pc = "done" /\ csv.opened) =>
        /\ Range(csv.headers) = {"query", "status", "query_time"} \cup SuccessFields
        /\ SubSeq(csv.headers, 1, 3) = <<"query", "status", "query_time">>
        /\ Range(SubSeq(csv.headers, 4, Len(csv.headers))) = SuccessFields
        /\ NoDuplicates(csv.headers)

RECURSIVE Concat(_)
Concat(seqs) == IF seqs = <<>> THEN <<>> ELSE Head(seqs) \o Concat(Tail(seqs))

\* C10: with batch_size >= 1 every batch has between 1 and batch_size items,
\* the batches taken so far concatenate to a prefix of the item list, and
\* when the run is done they concatenate to the whole list.
C10_BatchingPreserves ==
    batch_size >= 1 =>
        /\ \A n \in 1..Len(batches) :
              Len(batches[n]) >= 1 /\ Len(batches[n]) <= batch_size
        /\ Len(Concat(batches)) <= Len(items)
        /\ Concat(batches) = SubSeq(items, 1, Len(Concat(batches)))
        /\ Done => Concat(batches) = items

\* a finished run whose last batch is shorter than batch_size
C10_Witness ==
    /\ Done
    /\ batch_size = 2
    /\ Len(items) = 3
    /\ Len(batches) = 2
    /\ Len(batches[2]) = 1
    /\ items[1] # items[2]

\* the document has leaves, all of them under whois/korean/ISP
OnlyKoreanISP(doc) ==
    /\ doc.wf
    /\ doc.whois
    /\ doc.sub # <<>>
    /\ \A n \in 1..Len(doc.sub) : doc.sub[n].lang = "korean" /\ doc.sub[n].holder = "ISP"

TopKeys == {"query", "queryType", "registry", "countryCode"}

\* the keys of the other three subtrees
ForeignKeys ==
    {prefix \o tag : prefix \in {"korean_user_", "korean_user_contact_",
                                 "english_ISP_", "english_ISP_contact_",
                                 "english_user_", "english_user_contact_"},
                     tag \in {"range", "orgName", "name"}}

\* C11: for a document with only the Korean/ISP subtree populated the record
\* has exactly the four top-level keys and one korean_ISP_ key per leaf of
\* that subtree; no key of an absent subtree is present, with any value.
C11_OnlyKoreanIspKeys ==
    (px.pc = "done" /\ OnlyKoreanISP(px.xml_content)) =>
        LET leaves == Range(px.xml_content.sub)
            ispKeys == {"korean_ISP_" \o l.tag : l \in {x \in leaves : x.block = "netInfo"}}
                       \cup {"korean_ISP_contact_" \o l.tag :
                                l \in {x \in leaves : x.block = "techContact"}}
        IN  /\ DOMAIN px.out = TopKeys \cup ispKeys
            /\ (DOMAIN px.out) \cap ForeignKeys = {}

\* a parsed document with both Korean/ISP blocks populated and nothing else
C11_Witness ==
    /\ px.pc = "done"
    /\ OnlyKoreanISP(px.xml_content)
    /\ Len(px.xml_content.sub) = 3
    /\ "korean_ISP_range" \in DOMAIN px.out
    /\ "korean_ISP_contact_name" \in DOMAIN px.out
    /\ px.out["query"] = S("8.8.8.8")

\* C12: there is exactly one suspension between two consecutive batches and
\* none when no batch follows: while batch n is processed n - 1 suspensions
\* have elapsed, and a finished run over n >= 1 batches has had n - 1 of
\* them, a run without batches none.
C12_SleepOnlyBetweenBatches ==
    batch_size >= 1 =>
        /\ pc = "gather" => sleeps = Len(batches) - 1
        /\ Done => sleeps = (IF batches = <<>> THEN 0 ELSE Len(batches) - 1)

\* the lookups that are started and not yet completed
InFlight == {k \in 1..Len(items) : tasks[k].st = "inflight"}

\* C13: with batch_size >= 1 at most batch_size lookups are in flight at any
\* point, and the lookups that are in flight (or created and not yet started)
\* belong to one batch.
C13_InFlightBounded ==
    batch_size >= 1 =>
        /\ Cardinality(InFlight) <= batch_size
        /\ \A k \in 1..Len(items), m \in 1..Len(items) :
              (tasks[k].st \in {"pending", "inflight"} /\ tasks[m].st \in {"pending", "inflight"})
                  => BatchOf(k) = BatchOf(m)

\* a full batch in flight while a further item waits for the next batch
C13_Witness ==
    /\ batch_size = 2
    /\ Len(items) >= 3
    /\ InFlight = {1, 2}
    /\ tasks[3].st = "none"

\* C14: for every batch_size a run over a non-empty list that returns
\* "completed" has an outcome for every item, and a run with a non-positive
\* batch_size returns a top-level error.
C14_NoSilentCompletion ==
    (Done /\ items # <<>>) =>
        /\ Get(ret, "status") = S("completed") =>
              /\ \A k \in 1..Len(items) : tasks[k].st = "done"
              /\ ret.successful + ret.failed = Len(items)
        /\ batch_size <= 0 => Get(ret, "status") = S("error")

====
